---- MODULE Spec2Model ----
(***************************************************************************)
(* Model of WaveformSegments (src/src/waveform-segments.js): the segment   *)
(* repository of peaks.js, with its ordered list (_segments), its id map   *)
(* (_segmentsById), the id counter, the colour cursor, and the events it   *)
(* emits on the parent Peaks object.                                       *)
(*                                                                         *)
(* JavaScript values are tagged records.  A Segment object is              *)
(* [ref, id, startTime, endTime]: ref stands for the object's identity     *)
(* (two objects created by two `new Segment` calls differ even when all    *)
(* their fields agree).  An object's absent property is an absent record   *)
(* field.  An operation is an operator from the instance (`self`) and the  *)
(* arguments to a record [self, emitted, error, returned].                 *)
(***************************************************************************)
EXTENDS Integers, Sequences, FiniteSets, TLC

VARIABLES
  segments,             \* this._segments
  segmentsById,         \* this._segmentsById (own properties)
  segmentIdCounter,     \* this._segmentIdCounter
  colorIndex,           \* this._colorIndex
  randomizeSegmentColor,\* this._peaks.options.randomizeSegmentColor
  issuedIds,            \* history: the ids _getNextSegmentId has returned
  colorLog,             \* history: the colours _getSegmentColor has returned
  emitted,              \* the events the last call emitted on this._peaks
  lastCall,             \* the last call: operation, arguments, outcome
  view,                 \* what the caller holds of getSegments()'s array
  stack,                \* the calls whose emit is running a handler
  sequential            \* history of SpecReentrant: the instance, had each
                        \* call begun only after the one before it returned

vars == <<segments, segmentsById, segmentIdCounter, colorIndex,
          randomizeSegmentColor, issuedIds, colorLog, emitted, lastCall,
          view, stack, sequential>>

----------------------------------------------------------------------------
(* Bounds *)

MaxSegments == 3

MaxCounter == 2

MaxColorRequests == 11

MaxDepth == 2

----------------------------------------------------------------------------
(* Values *)

NULL == [type |-> "null"]

UNDEFINED == [type |-> "undefined"]

Number(n) == [type |-> "number", val |-> n]

String(s) == [type |-> "string", val |-> s]

typeof(v) == v.type

colors ==
  << "#001f3f", "#0074d9", "#7fdbff", "#39cccc", "#ffdc00",
     "#ff851b", "#ff4136", "#85144b", "#f012be", "#b10dc9" >>

segmentColor == "#ff0000"

\* The properties an object literal {} inherits from Object.prototype.
ObjectPrototypeKeys ==
  {"constructor", "toString", "valueOf", "hasOwnProperty"}

ObjectPrototype(key) == [type |-> "function", name |-> key]

isObject(value) == value.type = "object"

isNullOrUndefined(value) == value.type \in {"null", "undefined"}

\* object[field], undefined when the object has no such property
Get(object, field) ==
  IF field \in DOMAIN object THEN object[field] ELSE UNDEFINED

objectHasProperty(object, field) == field \in DOMAIN object

\* delete object[field]
DeleteProperty(object, field) ==
  [k \in (DOMAIN object) \ {field} |-> object[k]]

\* object[field] = value
SetProperty(object, field, value) ==
  [k \in (DOMAIN object) \cup {field} |->
     IF k = field THEN value ELSE object[k]]

EmptyObject == [k \in {} |-> NULL]

\* array.splice(index, 1) on a 0-based index: the array left
Splice(array, index) ==
  IF index < 0 \/ index >= Len(array) THEN array
  ELSE SubSeq(array, 1, index) \o SubSeq(array, index + 2, Len(array))

\* new Segment(options): an object unlike every live one
NewSegment(id, startTime, endTime, live) ==
  LET candidate(n) == [type |-> "segment", ref |-> n, id |-> id,
                       startTime |-> startTime, endTime |-> endTime]
      ref == CHOOSE n \in 0..Cardinality(live) :
               /\ candidate(n) \notin live
               /\ \A m \in 0..(n - 1) : candidate(m) \in live
  IN candidate(ref)

Range(seq) == {seq[i] : i \in 1..Len(seq)}

\* this._peaks.emit(name, payload), with the instance as a handler sees it
Event(name, payload, self) ==
  [name |-> name, payload |-> payload,
   segments |-> self.segments, segmentsById |-> self.segmentsById]

----------------------------------------------------------------------------
(* WaveformSegments *)

constructor(randomize) ==
  [segments |-> <<>>, segmentsById |-> EmptyObject,
   segmentIdCounter |-> 0, colorIndex |-> 0,
   randomizeSegmentColor |-> randomize, issuedIds |-> <<>>,
   colorLog |-> <<>>]

\* _getNextSegmentId without the ++
getNextSegmentIdNoIncrement(self) ==
  LET id == "peaks.segment." \o ToString(self.segmentIdCounter)
  IN [self |-> [self EXCEPT !.issuedIds = Append(@, id)], returned |-> id]

_getNextSegmentId(self) ==
  LET id == "peaks.segment." \o ToString(self.segmentIdCounter)
  IN [self |-> [self EXCEPT !.segmentIdCounter = @ + 1,
                            !.issuedIds = Append(@, id)],
      returned |-> id]

\* _getSegmentColor wrapping the cursor one entry before the palette's end
getSegmentColorEarlyWrap(self) ==
  IF self.randomizeSegmentColor
  THEN LET next == IF self.colorIndex + 1 = Len(colors) - 1 THEN 0
                   ELSE self.colorIndex + 1
       IN [self |-> [self EXCEPT !.colorIndex = next,
                                 !.colorLog = Append(@, colors[next + 1])],
           returned |-> colors[next + 1]]
  ELSE [self |-> [self EXCEPT !.colorLog = Append(@, segmentColor)],
        returned |-> segmentColor]

\* _getSegmentColor reading the palette before it advances the cursor
getSegmentColorPostIncrement(self) ==
  IF self.randomizeSegmentColor
  THEN LET next == IF self.colorIndex + 1 = Len(colors) THEN 0
                   ELSE self.colorIndex + 1
       IN [self |-> [self EXCEPT !.colorIndex = next,
                                 !.colorLog =
                                   Append(@, colors[self.colorIndex + 1])],
           returned |-> colors[self.colorIndex + 1]]
  ELSE [self |-> [self EXCEPT !.colorLog = Append(@, segmentColor)],
        returned |-> segmentColor]

_getSegmentColor(self) ==
  IF self.randomizeSegmentColor
  THEN LET next == IF self.colorIndex + 1 = Len(colors)
                   THEN 0 ELSE self.colorIndex + 1
       IN [self |-> [self EXCEPT !.colorIndex = next,
                                 !.colorLog = Append(@, colors[next + 1])],
           returned |-> colors[next + 1]]
  ELSE [self |-> [self EXCEPT !.colorLog = Append(@, segmentColor)],
        returned |-> segmentColor]

_addSegment(self, segment) ==
  [self EXCEPT !.segments = Append(@, segment),
               !.segmentsById = SetProperty(@, segment.id, segment)]

\* live: the Segment objects that exist when this one is constructed
_createSegment(self, options, live) ==
  IF ~isObject(options)
  THEN [self |-> self, error |-> "TypeError", returned |-> UNDEFINED,
        color |-> UNDEFINED]
  ELSE LET idStep == IF isNullOrUndefined(Get(options, "id"))
                     THEN _getNextSegmentId(self)
                     ELSE [self |-> self, returned |-> options.id.val]
           colorStep == IF isNullOrUndefined(Get(options, "color"))
                        THEN _getSegmentColor(idStep.self)
                        ELSE [self |-> idStep.self,
                              returned |-> options.color.val]
       IN [self |-> colorStep.self, error |-> "none",
           returned |-> NewSegment(idStep.returned, options.startTime,
                                   options.endTime, live),
           color |-> colorStep.returned]

getSegments(self) == self.segments

getSegment(self, id) ==
  IF id \in DOMAIN self.segmentsById THEN self.segmentsById[id]
  ELSE IF id \in ObjectPrototypeKeys THEN ObjectPrototype(id)
  ELSE NULL

\* getSegmentsAtTime with the end of the interval included
getSegmentsAtTimeClosed(self, time) ==
  SelectSeq(self.segments,
            LAMBDA segment : time >= segment.startTime
                             /\ time <= segment.endTime)

getSegmentsAtTime(self, time) ==
  SelectSeq(self.segments,
            LAMBDA segment : time >= segment.startTime
                             /\ time < segment.endTime)

\* add's map, inserting each segment as soon as it is created
RECURSIVE addMapInserting(_, _, _)
addMapInserting(self, options, created) ==
  IF options = <<>>
  THEN [self |-> self, error |-> "none", returned |-> created]
  ELSE LET step == _createSegment(self, Head(options),
                                  Range(self.segments) \cup Range(created))
       IN IF step.error # "none"
          THEN [self |-> step.self, error |-> step.error, returned |-> created]
          ELSE IF objectHasProperty(step.self.segmentsById, step.returned.id)
          THEN [self |-> step.self, error |-> "Error: duplicate id",
                returned |-> created]
          ELSE addMapInserting(_addSegment(step.self, step.returned),
                               Tail(options), Append(created, step.returned))

\* add's map in two passes: every descriptor normalized, then every id
\* checked
RECURSIVE createAll(_, _, _)
createAll(self, options, created) ==
  IF options = <<>>
  THEN [self |-> self, error |-> "none", returned |-> created]
  ELSE LET step == _createSegment(self, Head(options),
                                  Range(self.segments) \cup Range(created))
       IN IF step.error # "none"
          THEN [self |-> step.self, error |-> step.error, returned |-> created]
          ELSE createAll(step.self, Tail(options),
                         Append(created, step.returned))

addMapTwoPass(self, options, created) ==
  LET all == createAll(self, options, created)
  IN IF all.error # "none" THEN all
     ELSE IF \E i \in 1..Len(all.returned) :
               objectHasProperty(self.segmentsById, all.returned[i].id)
     THEN [all EXCEPT !.error = "Error: duplicate id"]
     ELSE all

\* add's map testing each id against the segments of the same batch as well
RECURSIVE addMapSiblings(_, _, _)
addMapSiblings(self, options, created) ==
  IF options = <<>>
  THEN [self |-> self, error |-> "none", returned |-> created]
  ELSE LET step == _createSegment(self, Head(options),
                                  Range(self.segments) \cup Range(created))
       IN IF step.error # "none"
          THEN [self |-> step.self, error |-> step.error, returned |-> created]
          ELSE IF \/ objectHasProperty(step.self.segmentsById,
                                       step.returned.id)
                  \/ \E j \in 1..Len(created) :
                       created[j].id = step.returned.id
          THEN [self |-> step.self, error |-> "Error: duplicate id",
                returned |-> created]
          ELSE addMapSiblings(step.self, Tail(options),
                              Append(created, step.returned))

\* segments.map(...) of add: the segments created so far, left to right
RECURSIVE addMap(_, _, _)
addMap(self, options, created) ==
  IF options = <<>>
  THEN [self |-> self, error |-> "none", returned |-> created]
  ELSE LET step == _createSegment(self, Head(options),
                                 Range(self.segments) \cup Range(created))
       IN IF step.error # "none"
          THEN [self |-> step.self, error |-> step.error, returned |-> created]
          ELSE IF objectHasProperty(step.self.segmentsById, step.returned.id)
          THEN [self |-> step.self, error |-> "Error: duplicate id",
                returned |-> created]
          ELSE addMap(step.self, Tail(options), Append(created, step.returned))

\* segments.forEach(_addSegment) of add
RECURSIVE addForEach(_, _)
addForEach(self, created) ==
  IF created = <<>> THEN self
  ELSE addForEach(_addSegment(self, Head(created)), Tail(created))

\* add with _addSegment called inside the map callback
addInserting(self, options) ==
  LET mapped == addMapInserting(self, options, <<>>)
  IN IF mapped.error # "none"
     THEN [self |-> mapped.self, emitted |-> <<>>, error |-> mapped.error,
           returned |-> UNDEFINED]
     ELSE [self |-> mapped.self,
           emitted |-> << Event("segments.add", mapped.returned,
                                mapped.self) >>,
           error |-> "none", returned |-> UNDEFINED]

\* add with the emit placed before the forEach
addEmitFirst(self, options) ==
  LET mapped == addMap(self, options, <<>>)
  IN IF mapped.error # "none"
     THEN [self |-> mapped.self, emitted |-> <<>>, error |-> mapped.error,
           returned |-> UNDEFINED]
     ELSE [self |-> addForEach(mapped.self, mapped.returned),
           emitted |-> << Event("segments.add", mapped.returned,
                                mapped.self) >>,
           error |-> "none", returned |-> UNDEFINED]

add(self, options) ==
  LET mapped == addMap(self, options, <<>>)
  IN IF mapped.error # "none"
     THEN [self |-> mapped.self, emitted |-> <<>>, error |-> mapped.error,
           returned |-> UNDEFINED]
     ELSE LET after == addForEach(mapped.self, mapped.returned)
          IN [self |-> after,
              emitted |-> << Event("segments.add", mapped.returned, after) >>,
              error |-> "none", returned |-> UNDEFINED]

\* The predicate closures of remove, removeById and removeByTime
Call(predicate, s) ==
  CASE predicate.fn = "identity" -> s = predicate.segment
    [] predicate.fn = "id" -> s.id = predicate.segmentId
    [] predicate.fn = "startEndTime" ->
         s.startTime = predicate.startTime /\ s.endTime = predicate.endTime
    [] predicate.fn = "startTime" -> s.startTime = predicate.startTime

\* 0-based indexes, ascending
_findSegment(self, predicate) ==
  LET all == [i \in 1..Len(self.segments) |-> i - 1]
  IN SelectSeq(all, LAMBDA i : Call(predicate, self.segments[i + 1]))

RECURSIVE removeIndexesLoop(_, _, _, _)
removeIndexesLoop(self, indexes, i, removed) ==
  IF ~(i < Len(indexes))
  THEN [self |-> self, error |-> "none", returned |-> removed]
  ELSE LET index == indexes[i + 1] - Len(removed)
       IN IF index < 0 \/ index >= Len(self.segments)
          \* splice removes nothing: itemRemoved is undefined, .id throws
          THEN [self |-> self, error |-> "TypeError", returned |-> removed]
          ELSE LET itemRemoved == self.segments[index + 1]
                   next == [self EXCEPT
                              !.segments = Splice(@, index),
                              !.segmentsById =
                                 DeleteProperty(@, itemRemoved.id)]
               IN removeIndexesLoop(next, indexes, i + 1,
                                    Append(removed, itemRemoved))

\* _removeIndexes without the index drift: index = indexes[i]
RECURSIVE removeIndexesNoDriftLoop(_, _, _, _)
removeIndexesNoDriftLoop(self, indexes, i, removed) ==
  IF ~(i < Len(indexes))
  THEN [self |-> self, error |-> "none", returned |-> removed]
  ELSE LET index == indexes[i + 1]
       IN IF index < 0 \/ index >= Len(self.segments)
          THEN [self |-> self, error |-> "TypeError", returned |-> removed]
          ELSE LET itemRemoved == self.segments[index + 1]
                   next == [self EXCEPT
                              !.segments = Splice(@, index),
                              !.segmentsById =
                                 DeleteProperty(@, itemRemoved.id)]
               IN removeIndexesNoDriftLoop(next, indexes, i + 1,
                                           Append(removed, itemRemoved))

removeIndexesNoDrift(self, indexes) ==
  removeIndexesNoDriftLoop(self, indexes, 0, <<>>)

_removeIndexes(self, indexes) == removeIndexesLoop(self, indexes, 0, <<>>)

\* _removeSegments emitting only when something was removed
removeSegmentsQuiet(self, predicate) ==
  LET indexes == _findSegment(self, predicate)
      removed == _removeIndexes(self, indexes)
  IN IF removed.error # "none"
     THEN [self |-> removed.self, emitted |-> <<>>, error |-> removed.error,
           returned |-> UNDEFINED]
     ELSE [self |-> removed.self,
           emitted |-> IF removed.returned = <<>> THEN <<>>
                       ELSE << Event("segments.remove", removed.returned,
                                     removed.self) >>,
           error |-> "none", returned |-> removed.returned]

_removeSegments(self, predicate) ==
  LET indexes == _findSegment(self, predicate)
      removed == _removeIndexes(self, indexes)
  IN IF removed.error # "none"
     THEN [self |-> removed.self, emitted |-> <<>>, error |-> removed.error,
           returned |-> UNDEFINED]
     ELSE [self |-> removed.self,
           emitted |-> << Event("segments.remove", removed.returned,
                                removed.self) >>,
           error |-> "none", returned |-> removed.returned]

remove(self, segment) ==
  _removeSegments(self, [fn |-> "identity", segment |-> segment])

removeById(self, segmentId) ==
  _removeSegments(self, [fn |-> "id", segmentId |-> segmentId])

\* removeByTime without the endTime > 0 test
removeByTimeAnyNumber(self, startTime, endTime) ==
  IF typeof(endTime) = "number"
  THEN _removeSegments(self, [fn |-> "startEndTime", startTime |-> startTime,
                              endTime |-> endTime.val])
  ELSE _removeSegments(self, [fn |-> "startTime", startTime |-> startTime])

\* startTime is a number; endTime is any value
removeByTime(self, startTime, endTime) ==
  LET end == IF typeof(endTime) = "number" THEN endTime.val ELSE 0
      fnFilter == IF end > 0
                  THEN [fn |-> "startEndTime", startTime |-> startTime,
                        endTime |-> end]
                  ELSE [fn |-> "startTime", startTime |-> startTime]
  IN _removeSegments(self, fnFilter)

removeAll(self) ==
  LET after == [self EXCEPT !.segments = <<>>, !.segmentsById = EmptyObject]
  IN [self |-> after,
      emitted |-> << Event("segments.remove_all", UNDEFINED, after) >>,
      error |-> "none", returned |-> UNDEFINED]

\* add writing the new segments to both indexes once more after emit
addAfterEmitInserting(self, created) ==
  [self |-> addForEach(self, created), returned |-> UNDEFINED]

\* What add does after emit('segments.add', segments) returns: nothing
addAfterEmit(self, created) ==
  [self |-> self, returned |-> UNDEFINED]

\* What _removeSegments does after emit('segments.remove', removed) returns
removeSegmentsAfterEmit(self, removed) ==
  [self |-> self, returned |-> removed]

\* What removeAll does after emit('segments.remove_all') returns: nothing
removeAllAfterEmit(self) ==
  [self |-> self, returned |-> UNDEFINED]

\* A public operation, up to and including its emit
Invoke(self, call) ==
  CASE call.op = "add" -> add(self, call.args)
    [] call.op = "remove" -> remove(self, call.args[1])
    [] call.op = "removeById" -> removeById(self, call.args[1])
    [] call.op = "removeByTime" ->
         removeByTime(self, call.args[1], call.args[2])
    [] call.op = "removeAll" -> removeAll(self)

\* The rest of the operation of a frame, once its handler has returned
Resume(self, frame) ==
  CASE frame.op = "add" -> addAfterEmit(self, frame.payload)
    [] frame.op \in {"remove", "removeById", "removeByTime"} ->
         removeSegmentsAfterEmit(self, frame.payload)
    [] frame.op = "removeAll" -> removeAllAfterEmit(self)

----------------------------------------------------------------------------
(* The calls the host makes *)

Descriptors ==
  { Number(0),
    [type |-> "object", startTime |-> 0, endTime |-> 10,
     color |-> String("#00ff00")],
    [type |-> "object", id |-> String("a"), startTime |-> 10, endTime |-> 20,
     color |-> String("#00ff00")],
    [type |-> "object", id |-> String("peaks.segment.1"),
     startTime |-> 0, endTime |-> 10, color |-> String("#00ff00")] }

\* Descriptors with times of their own: [0,10), [10,20) and the empty [10,10)
TimeDescriptors ==
  { [type |-> "object", id |-> String("a"), startTime |-> 0, endTime |-> 10,
     color |-> String("#00ff00")],
    [type |-> "object", id |-> String("b"), startTime |-> 10, endTime |-> 20,
     color |-> String("#00ff00")],
    [type |-> "object", id |-> NULL, startTime |-> 10, endTime |-> 10,
     color |-> String("#00ff00")] }

\* Descriptors with and without a colour of their own
ColorDescriptors ==
  { Number(0),
    [type |-> "object", id |-> String("a"), startTime |-> 0, endTime |-> 10],
    [type |-> "object", id |-> String("b"), startTime |-> 10, endTime |-> 20,
     color |-> NULL],
    [type |-> "object", id |-> String("a"), startTime |-> 0, endTime |-> 10,
     color |-> String("#00ff00")] }

\* Descriptors that ask for an id, for a colour, or for both
OnePassDescriptors ==
  { Number(0),
    [type |-> "object", id |-> String("a"), startTime |-> 0, endTime |-> 10],
    [type |-> "object", startTime |-> 10, endTime |-> 20, color |-> NULL] }

\* Descriptors with an id that names a property of Object.prototype
ProtoDescriptors ==
  { [type |-> "object", id |-> String("constructor"), startTime |-> 0,
     endTime |-> 10, color |-> String("#00ff00")],
    [type |-> "object", id |-> String("a"), startTime |-> 10, endTime |-> 20,
     color |-> String("#00ff00")] }

\* add(), add(d), add(d, e), add([d, e])
BatchesOf(descriptors) ==
  {<<>>} \cup {<<d>> : d \in descriptors}
         \cup {<<d, e>> : d \in descriptors, e \in descriptors}

Batches == BatchesOf(Descriptors)

Ids == {"a", "peaks.segment.0", "b"}

\* Ids looked up: of segments, of none, and names Object.prototype defines
QueryIds == Ids \cup {"constructor", "toString"}

Times == {0, 10}

EndTimes == {UNDEFINED, Number(10)}

\* endTime values of every kind: absent, not a number, negative, zero, positive
AllEndTimes ==
  {UNDEFINED, NULL, String("10"), Number(-1), Number(0), Number(10),
   Number(20)}

\* Points in time looked up: starts, ends, and points inside and outside
QueryTimes == {0, 5, 10, 15, 20}

\* A Segment object the repository does not hold
ForeignSegment ==
  [type |-> "segment", ref |-> -1, id |-> "a", startTime |-> 0,
   endTime |-> 10]

\* Descriptors of the batch that get an automatic id
AutoCount(options) ==
  Cardinality({i \in 1..Len(options) :
                 /\ isObject(options[i])
                 /\ isNullOrUndefined(Get(options[i], "id"))})

\* Descriptors of the batch that ask for a colour
ColorCount(options) ==
  Cardinality({i \in 1..Len(options) :
                 /\ isObject(options[i])
                 /\ isNullOrUndefined(Get(options[i], "color"))})

Self ==
  [segments |-> segments, segmentsById |-> segmentsById,
   segmentIdCounter |-> segmentIdCounter, colorIndex |-> colorIndex,
   randomizeSegmentColor |-> randomizeSegmentColor, issuedIds |-> issuedIds,
   colorLog |-> colorLog]

\* The instance and the events after a call with outcome r
Becomes(r) ==
  /\ segments' = r.self.segments
  /\ segmentsById' = r.self.segmentsById
  /\ segmentIdCounter' = r.self.segmentIdCounter
  /\ colorIndex' = r.self.colorIndex
  /\ randomizeSegmentColor' = r.self.randomizeSegmentColor
  /\ issuedIds' = r.self.issuedIds
  /\ colorLog' = r.self.colorLog
  /\ emitted' = r.emitted

\* new WaveformSegments(peaks)
Constructed(randomize) ==
  LET self == constructor(randomize)
  IN /\ segments = self.segments
     /\ segmentsById = self.segmentsById
     /\ segmentIdCounter = self.segmentIdCounter
     /\ colorIndex = self.colorIndex
     /\ randomizeSegmentColor = self.randomizeSegmentColor
     /\ issuedIds = self.issuedIds
     /\ colorLog = self.colorLog
     /\ emitted = <<>>
     /\ lastCall = [op |-> "constructor"]
     /\ view = "none"
     /\ stack = <<>>
     /\ sequential = self

Init == Constructed(FALSE)

\* A call that replaces this._segments leaves the caller's array detached
ViewAfter(r) ==
  IF view = "alias" /\ r.emitted # <<>>
     /\ r.emitted[1].name = "segments.remove_all"
  THEN "stale" ELSE view

Add(options) ==
  /\ Len(segments) + Len(options) <= MaxSegments
  /\ segmentIdCounter + AutoCount(options) <= MaxCounter
  /\ Len(colorLog) + ColorCount(options) <= MaxColorRequests
  /\ \E r \in {add(Self, options)} :
        /\ Becomes(r)
        /\ lastCall' = [op |-> "add", args |-> options, error |-> r.error,
                        returned |-> r.returned]
  /\ UNCHANGED <<view, stack, sequential>>

Remove(segment) ==
  /\ \E r \in {remove(Self, segment)} :
        /\ Becomes(r)
        /\ lastCall' = [op |-> "remove", args |-> <<segment>>,
                        error |-> r.error, returned |-> r.returned]
  /\ UNCHANGED <<view, stack, sequential>>

RemoveById(segmentId) ==
  /\ \E r \in {removeById(Self, segmentId)} :
        /\ Becomes(r)
        /\ lastCall' = [op |-> "removeById", args |-> <<segmentId>>,
                        error |-> r.error, returned |-> r.returned]
  /\ UNCHANGED <<view, stack, sequential>>

RemoveByTime(startTime, endTime) ==
  /\ \E r \in {removeByTime(Self, startTime, endTime)} :
        /\ Becomes(r)
        /\ lastCall' = [op |-> "removeByTime", args |-> <<startTime, endTime>>,
                        error |-> r.error, returned |-> r.returned]
  /\ UNCHANGED <<view, stack, sequential>>

RemoveAll ==
  /\ \E r \in {removeAll(Self)} :
        /\ Becomes(r)
        /\ lastCall' = [op |-> "removeAll", args |-> <<>>,
                        error |-> r.error, returned |-> r.returned]
        /\ view' = ViewAfter(r)
  /\ UNCHANGED <<stack, sequential>>

GetSegment(id) ==
  /\ lastCall' = [op |-> "getSegment", args |-> <<id>>, error |-> "none",
                  returned |-> getSegment(Self, id)]
  /\ emitted' = <<>>
  /\ UNCHANGED <<segments, segmentsById, segmentIdCounter, colorIndex,
                 randomizeSegmentColor, issuedIds, colorLog, view, stack,
                 sequential>>

GetSegmentsAtTime(time) ==
  /\ lastCall' = [op |-> "getSegmentsAtTime", args |-> <<time>>,
                  error |-> "none", returned |-> getSegmentsAtTime(Self, time)]
  /\ emitted' = <<>>
  /\ UNCHANGED <<segments, segmentsById, segmentIdCounter, colorIndex,
                 randomizeSegmentColor, issuedIds, colorLog, view, stack,
                 sequential>>

\* The caller keeps the array getSegments() returns
GetSegments ==
  /\ lastCall' = [op |-> "getSegments", args |-> <<>>, error |-> "none",
                  returned |-> getSegments(Self)]
  /\ emitted' = <<>>
  /\ view' = "alias"
  /\ UNCHANGED <<segments, segmentsById, segmentIdCounter, colorIndex,
                 randomizeSegmentColor, issuedIds, colorLog, stack,
                 sequential>>

\* The caller calls pop() on the array getSegments() returned
CallerPop ==
  /\ view = "alias"
  /\ segments # <<>>
  /\ segments' = SubSeq(getSegments(Self), 1, Len(segments) - 1)
  /\ lastCall' = [op |-> "caller.pop", args |-> <<>>, error |-> "none",
                  returned |-> segments[Len(segments)]]
  /\ emitted' = <<>>
  /\ UNCHANGED <<segmentsById, segmentIdCounter, colorIndex,
                 randomizeSegmentColor, issuedIds, colorLog, view, stack,
                 sequential>>

\* The caller calls push(segment) on the array getSegments() returned
CallerPush(segment) ==
  /\ view = "alias"
  /\ Len(segments) < MaxSegments
  /\ segments' = Append(getSegments(Self), segment)
  /\ lastCall' = [op |-> "caller.push", args |-> <<segment>>,
                  error |-> "none", returned |-> Number(Len(segments) + 1)]
  /\ emitted' = <<>>
  /\ UNCHANGED <<segmentsById, segmentIdCounter, colorIndex,
                 randomizeSegmentColor, issuedIds, colorLog, view, stack,
                 sequential>>

Next ==
  \/ \E options \in Batches : Add(options)
  \/ \E segment \in Range(segments) \cup {ForeignSegment} : Remove(segment)
  \/ \E segmentId \in Ids : RemoveById(segmentId)
  \/ \E startTime \in Times, endTime \in EndTimes :
        RemoveByTime(startTime, endTime)
  \/ RemoveAll

Spec == Init /\ [][Next]_vars

\* The host looks segments up, and keeps and changes the array
\* getSegments() returns
NextView ==
  \/ \E d \in Descriptors : Add(<<d>>)
  \/ \E segmentId \in Ids : RemoveById(segmentId)
  \/ RemoveAll
  \/ \E id \in QueryIds : GetSegment(id)
  \/ GetSegments
  \/ CallerPop
  \/ CallerPush(ForeignSegment)

SpecView == Init /\ [][NextView]_vars

\* Segments told apart by their times, removed by time
NextTime ==
  \/ \E d \in TimeDescriptors : Add(<<d>>)
  \/ \E startTime \in Times \cup {20}, endTime \in AllEndTimes :
        RemoveByTime(startTime, endTime)
  \/ RemoveAll
  \/ \E time \in QueryTimes : GetSegmentsAtTime(time)

SpecTime == Init /\ [][NextTime]_vars

\* Segments whose ids are names Object.prototype defines, looked up by id
NextProto ==
  \/ \E options \in BatchesOf(ProtoDescriptors) : Add(options)
  \/ \E segmentId \in QueryIds : RemoveById(segmentId)
  \/ RemoveAll
  \/ \E id \in QueryIds : GetSegment(id)

SpecProto == Init /\ [][NextProto]_vars

\* Colours asked for, with randomizeSegmentColor set or not
InitColor == \E randomize \in BOOLEAN : Constructed(randomize)

\* Batches of one descriptor, or of one followed by a non-object or by a
\* descriptor without colour
ColorBatches ==
  {<<d>> : d \in ColorDescriptors}
    \cup {<<d, e>> : d \in ColorDescriptors,
                     e \in {f \in ColorDescriptors :
                              ~objectHasProperty(f, "color")}}

NextColor ==
  \/ \E options \in ColorBatches : Add(options)
  \/ \E segment \in Range(segments) : Remove(segment)
  \/ RemoveById("a")
  \/ RemoveByTime(10, UNDEFINED)
  \/ RemoveAll

SpecColor == InitColor /\ [][NextColor]_vars

\* Batches whose descriptors ask for ids and colours, with
\* randomizeSegmentColor set
NextOnePass ==
  \/ \E options \in BatchesOf(OnePassDescriptors) : Add(options)
  \/ RemoveById("a")
  \/ RemoveAll

InitOnePass == Constructed(TRUE)

SpecOnePass == InitOnePass /\ [][NextOnePass]_vars

\* The calls the host and its handlers make in SpecReentrant
ReentrantCalls ==
  { [op |-> "add", args |-> <<d>>] :
      d \in { [type |-> "object", id |-> String("a"), startTime |-> 10,
               endTime |-> 20, color |-> String("#00ff00")],
              [type |-> "object", startTime |-> 0, endTime |-> 10,
               color |-> String("#00ff00")] } }
  \cup { [op |-> "remove", args |-> <<s>>] : s \in Range(segments) }
  \cup { [op |-> "removeById", args |-> <<"a">>],
         [op |-> "removeByTime", args |-> <<0, UNDEFINED>>],
         [op |-> "removeAll", args |-> <<>>] }

\* An exception thrown by the last call has not been caught
Pending == lastCall.op # "constructor" /\ lastCall.error # "none"

\* The host, or the handler of the innermost emit in progress, calls a public
\* operation.  The operation runs up to its emit, whose handler then runs.
Enter(call) ==
  /\ Len(stack) < MaxDepth
  /\ call.op = "add" =>
       /\ Len(segments) + Len(call.args) <= MaxSegments
       /\ segmentIdCounter + AutoCount(call.args) <= MaxCounter
  /\ \E r \in {Invoke(Self, call)} :
        /\ Becomes(r)
        /\ lastCall' = [op |-> call.op, args |-> call.args,
                        error |-> r.error]
        /\ stack' = IF r.emitted = <<>> THEN stack
                    ELSE Append(stack, [op |-> call.op,
                                        payload |-> r.emitted[1].payload])
  /\ sequential' = Invoke(sequential, call).self
  /\ UNCHANGED view

\* The handler of the innermost emit returns, catching what its calls threw,
\* and the operation that emitted runs to its end.
Return ==
  /\ stack # <<>>
  /\ \E r \in {Resume(Self, stack[Len(stack)])} :
        /\ Becomes([self |-> r.self, emitted |-> <<>>])
        /\ lastCall' = [op |-> "return", of |-> stack[Len(stack)].op,
                        error |-> "none", returned |-> r.returned]
  /\ stack' = SubSeq(stack, 1, Len(stack) - 1)
  /\ UNCHANGED <<view, sequential>>

\* The handler of the innermost emit lets the exception of a call pass: it
\* leaves emit and the operation that emitted, which does not run on.
Unwind ==
  /\ stack # <<>>
  /\ Pending
  /\ lastCall' = [op |-> "throw", of |-> stack[Len(stack)].op,
                  error |-> lastCall.error]
  /\ emitted' = <<>>
  /\ stack' = SubSeq(stack, 1, Len(stack) - 1)
  /\ UNCHANGED <<segments, segmentsById, segmentIdCounter, colorIndex,
                 randomizeSegmentColor, issuedIds, colorLog, view,
                 sequential>>

NextReentrant ==
  \/ \E call \in ReentrantCalls : Enter(call)
  \/ Return
  \/ Unwind

SpecReentrant == Init /\ [][NextReentrant]_vars

----------------------------------------------------------------------------
(* Properties *)

RemovalOps == {"remove", "removeById", "removeByTime"}

StoredIds == {segments[i].id : i \in 1..Len(segments)}

\* Whether segment s satisfies the predicate of removal call `call`
Matches(call, s) ==
  CASE call.op = "remove" -> s = call.args[1]
    [] call.op = "removeById" -> s.id = call.args[1]
    [] call.op = "removeByTime" ->
         IF call.args[2].type = "number" /\ call.args[2].val > 0
         THEN s.startTime = call.args[1] /\ s.endTime = call.args[2].val
         ELSE s.startTime = call.args[1]

Matching(call, list) == SelectSeq(list, LAMBDA s : Matches(call, s))

NotMatching(call, list) == SelectSeq(list, LAMBDA s : ~Matches(call, s))

\* C1: every segment of the ordered list is the one getSegment returns for
\* its id, and the ordered list and the id map have the same size.
C1_DualIndexMirror ==
  /\ \A i \in 1..Len(segments) :
        getSegment(Self, segments[i].id) = segments[i]
  /\ Len(segments) = Cardinality(DOMAIN segmentsById)

\* C2: no two elements of getSegments() share an id: its length is the
\* number of distinct ids in it.
C2_IdUniqueness ==
  Len(getSegments(Self)) = Cardinality(StoredIds)

\* C3: an add that raises an error leaves the ordered list and the id map
\* as they were and emits no 'segments.add' event.
C3_AddAllOrNothing ==
  [][(lastCall'.op = "add" /\ lastCall'.error # "none") =>
       /\ segments' = segments
       /\ segmentsById' = segmentsById
       /\ \A i \in 1..Len(emitted') : emitted'[i].name # "segments.add"]_vars

\* An add failed at its second descriptor, the first being a valid one,
\* on a repository that holds segments.
C3_Witness ==
  /\ lastCall.op = "add"
  /\ lastCall.error # "none"
  /\ Len(lastCall.args) = 2
  /\ isObject(lastCall.args[1])
  /\ isNullOrUndefined(Get(lastCall.args[1], "id"))
  /\ segments # <<>>

\* C4: a removal leaves the ordered list with exactly the elements matching
\* its predicate deleted, the others in their order; it returns and notifies
\* the matching elements in their order; their ids are no keys of the id map.
C4_RemovalExact ==
  [][(lastCall'.op \in RemovalOps) =>
       /\ lastCall'.error = "none"
       /\ segments' = NotMatching(lastCall', segments)
       /\ lastCall'.returned = Matching(lastCall', segments)
       /\ \A i \in 1..Len(emitted') :
             emitted'[i].payload = Matching(lastCall', segments)
       /\ \A s \in Range(Matching(lastCall', segments)) :
             s.id \notin DOMAIN segmentsById']_vars

\* A removal took two segments out and left one.
C4_Witness ==
  /\ lastCall.op \in RemovalOps
  /\ Len(lastCall.returned) = 2
  /\ Len(segments) = 1

\* C5: a successful add emits one 'segments.add' event and no other; its
\* payload is the batch's segments in input order; when it is emitted the
\* ordered list is the former list followed by the batch, and every segment
\* of the batch has its id in the id map.
C5_AddNotifiesOnce ==
  [][(lastCall'.op = "add" /\ lastCall'.error = "none") =>
       /\ Len(emitted') = 1
       /\ emitted'[1].name = "segments.add"
       /\ LET batch == lastCall'.args
              e == emitted'[1]
          IN /\ Len(e.payload) = Len(batch)
             /\ \A i \in 1..Len(batch) :
                   /\ e.payload[i].startTime = batch[i].startTime
                   /\ e.payload[i].endTime = batch[i].endTime
                   /\ ~isNullOrUndefined(Get(batch[i], "id")) =>
                         e.payload[i].id = batch[i].id.val
             /\ e.segments = segments \o e.payload
             /\ \A i \in 1..Len(batch) :
                   /\ e.payload[i].id \in DOMAIN e.segmentsById
                   /\ e.segmentsById[e.payload[i].id] \in Range(e.payload)]_vars

\* A batch of two was added after a segment already stored.
C5_Witness ==
  /\ lastCall.op = "add"
  /\ lastCall.error = "none"
  /\ Len(lastCall.args) = 2
  /\ Len(segments) = 3
  /\ Len(emitted) = 1

\* C6: a removal raises no error and emits one 'segments.remove' event with
\* the segments it removed; when nothing matches, nothing changes and the
\* payload is empty.
C6_RemovalNotifiesOnce ==
  [][(lastCall'.op \in RemovalOps) =>
       /\ lastCall'.error = "none"
       /\ Len(emitted') = 1
       /\ emitted'[1].name = "segments.remove"
       /\ emitted'[1].payload = lastCall'.returned
       /\ Range(emitted'[1].payload) = Range(segments) \ Range(segments')
       /\ Len(emitted'[1].payload) = Len(segments) - Len(segments')
       /\ (\A s \in Range(segments) : ~Matches(lastCall', s)) =>
             /\ segments' = segments
             /\ segmentsById' = segmentsById
             /\ emitted'[1].payload = <<>>]_vars

\* A removal matched nothing in a repository that holds segments.
C6_Witness ==
  /\ lastCall.op \in RemovalOps
  /\ lastCall.returned = <<>>
  /\ Len(emitted) = 1
  /\ emitted[1].payload = <<>>
  /\ segments # <<>>

\* C7: getSegment(id) is null for every id no stored segment has, and is
\* otherwise a stored segment.
C7_GetSegmentNullForAbsent ==
  \A id \in QueryIds :
    IF id \in StoredIds
    THEN getSegment(Self, id) \in Range(segments) \cup {NULL}
    ELSE getSegment(Self, id) = NULL

\* C8: the id counter never decreases and the automatic ids handed out are
\* pairwise distinct.
C8_AutoIdsNeverRepeat ==
  [][/\ segmentIdCounter' >= segmentIdCounter
     /\ \A i, j \in 1..Len(issuedIds') :
          i # j => issuedIds'[i] # issuedIds'[j]]_vars

\* Two automatic ids were handed out, and two stored segments have them.
C8_Witness ==
  /\ Len(issuedIds) = 2
  /\ Len(segments) >= 2
  /\ segments[1].id = issuedIds[1]
  /\ segments[2].id = issuedIds[2]

\* C9: a caller changing the array getSegments() returned changes neither
\* the ordered list nor the id map.
C9_ViewDoesNotLeak ==
  [][(lastCall'.op \in {"caller.pop", "caller.push"}) =>
       /\ segments' = segments
       /\ segmentsById' = segmentsById]_vars

Position(s) == CHOOSE i \in 1..Len(segments) : segments[i] = s

C12_RemoveAllEmpties ==
  [][(lastCall'.op = "removeAll") =>
       /\ segments' = <<>>
       /\ DOMAIN segmentsById' = {}
       /\ \A id \in StoredIds :
             getSegment([segmentsById |-> segmentsById'], id) = NULL
       /\ Len(emitted') = 1
       /\ emitted'[1].name = "segments.remove_all"
       /\ emitted'[1].payload = UNDEFINED
       /\ UNCHANGED <<segmentIdCounter, colorIndex>>]_vars

\* The id _getNextSegmentId makes of counter value n
AutoId(n) == "peaks.segment." \o ToString(n)

\* The id descriptor i of the batch is given, from the state before the call
IdAt(batch, i) ==
  IF isNullOrUndefined(Get(batch[i], "id"))
  THEN AutoId(segmentIdCounter + AutoCount(SubSeq(batch, 1, i - 1)))
  ELSE batch[i].id.val

\* Descriptor i of the batch is no object, or its id is a key of the id map
FailsAt(batch, i) ==
  \/ ~isObject(batch[i])
  \/ IdAt(batch, i) \in DOMAIN segmentsById

\* The first descriptor of the batch that fails, 0 when none does
FirstFailure(batch) ==
  LET failing == {i \in 1..Len(batch) : FailsAt(batch, i)}
  IN IF failing = {} THEN 0
     ELSE CHOOSE i \in failing : \A j \in failing : i <= j

\* The descriptors add normalizes: all of them, or those up to the first
\* that fails
Normalized(batch) ==
  LET k == FirstFailure(batch)
  IN IF k = 0 THEN batch ELSE SubSeq(batch, 1, k)

\* C13 as claimed: a failing add leaves the id counter and the colour cursor
\* as they were, and a batch of a descriptor with a colliding id followed by
\* a non-object fails with the invalid-argument error.
C13_TwoPhaseAdd ==
  [][(lastCall'.op = "add" /\ lastCall'.error # "none") =>
       /\ UNCHANGED <<segmentIdCounter, colorIndex>>
       /\ (\E i \in 1..Len(lastCall'.args) : ~isObject(lastCall'.args[i]))
             => lastCall'.error = "TypeError"]_vars

\* C13 amended: add normalizes and checks the descriptors one at a time in
\* input order.  It fails at the first descriptor that is no object
\* (invalid argument) or whose id is a key of the id map (duplicate id); it
\* then leaves the ordered list and the id map as they were, with the id
\* counter and the colour cursor advanced once for each descriptor up to
\* that one that had no id, or no colour.
C13_OnePassAdd ==
  [][(lastCall'.op = "add") =>
       LET batch == lastCall'.args
           k == FirstFailure(batch)
           done == IF k = 0 THEN batch ELSE SubSeq(batch, 1, k)
       IN /\ lastCall'.error =
               IF k = 0 THEN "none"
               ELSE IF ~isObject(batch[k]) THEN "TypeError"
               ELSE "Error: duplicate id"
          /\ k # 0 => UNCHANGED <<segments, segmentsById>>
          /\ segmentIdCounter' = segmentIdCounter + AutoCount(done)
          /\ Len(colorLog') = Len(colorLog) + ColorCount(done)
          /\ colorIndex' =
               IF randomizeSegmentColor
               THEN (colorIndex + ColorCount(done)) % Len(colors)
               ELSE colorIndex]_vars

\* A batch of a descriptor with a colliding id and a non-object failed with
\* the duplicate-id error, after a colour was asked for.
C13_Witness ==
  /\ lastCall.op = "add"
  /\ Len(lastCall.args) = 2
  /\ isObject(lastCall.args[1])
  /\ isNullOrUndefined(Get(lastCall.args[1], "color"))
  /\ ~isObject(lastCall.args[2])
  /\ lastCall.error = "Error: duplicate id"
  /\ randomizeSegmentColor

\* C14: when a notification is emitted the repository is already in the state
\* the operation ends in, and nothing is written after the emission: every
\* added segment is in the ordered list and is what getSegment returns for
\* its id, every removed segment is off the list and its id is no key of the
\* id map.
C14_EmitSeesPostState ==
  [][(lastCall'.op \in RemovalOps \cup {"add", "removeAll"}) =>
       \A e \in 1..Len(emitted') :
         LET event == emitted'[e]
             during == [segmentsById |-> event.segmentsById]
         IN /\ event.segments = segments'
            /\ event.segmentsById = segmentsById'
            /\ event.name = "segments.add" =>
                 \A i \in 1..Len(event.payload) :
                   /\ event.payload[i] \in Range(event.segments)
                   /\ getSegment(during, event.payload[i].id)
                        = event.payload[i]
            /\ event.name = "segments.remove" =>
                 \A i \in 1..Len(event.payload) :
                   /\ event.payload[i] \notin Range(event.segments)
                   /\ event.payload[i].id \notin DOMAIN event.segmentsById
            /\ event.name = "segments.remove_all" =>
                 /\ event.segments = <<>>
                 /\ DOMAIN event.segmentsById = {}]_vars

\* C15: a colour is asked for exactly once per normalized descriptor whose
\* color is absent or null.  With randomizeSegmentColor each request advances
\* the colour cursor by one, wrapping at the palette length, and returns the
\* palette entry at the new cursor; without it each request returns
\* segmentColor and the cursor stays.  This holds whether or not the add
\* then fails, and no other operation moves the cursor or asks for a colour.
C15_ColourAssignment ==
  [][IF lastCall'.op = "add"
     THEN LET n == ColorCount(Normalized(lastCall'.args))
          IN /\ Len(colorLog') = Len(colorLog) + n
             /\ SubSeq(colorLog', 1, Len(colorLog)) = colorLog
             /\ \A j \in 1..n :
                   colorLog'[Len(colorLog) + j] =
                     IF randomizeSegmentColor
                     THEN colors[((colorIndex + j) % Len(colors)) + 1]
                     ELSE segmentColor
             /\ colorIndex' = IF randomizeSegmentColor
                              THEN (colorIndex + n) % Len(colors)
                              ELSE colorIndex
     ELSE UNCHANGED <<colorIndex, colorLog>>]_vars

\* An add that asked for a colour, advanced the cursor and then failed on a
\* non-object.
C15_Witness ==
  /\ lastCall.op = "add"
  /\ lastCall.error = "TypeError"
  /\ isObject(lastCall.args[1])
  /\ isNullOrUndefined(Get(lastCall.args[1], "color"))
  /\ randomizeSegmentColor
  /\ colorIndex > 0
  /\ colorLog # <<>>

\* C16: add tests each id against the id map as it was before the call only.
\* An add of two descriptors with the same explicit id that is no key of the
\* id map raises no error, appends both segments to the ordered list, leaves
\* one id-map entry for the id, which is the later segment, and emits one
\* 'segments.add' event with both.
C16_IntraBatchDuplicateGap ==
  [][(/\ lastCall'.op = "add"
      /\ Len(lastCall'.args) = 2
      /\ \A i \in 1..2 : /\ isObject(lastCall'.args[i])
                          /\ ~isNullOrUndefined(Get(lastCall'.args[i], "id"))
      /\ lastCall'.args[1].id = lastCall'.args[2].id
      /\ lastCall'.args[1].id.val \notin DOMAIN segmentsById) =>
       LET id == lastCall'.args[1].id.val
           n == Len(segments)
       IN /\ lastCall'.error = "none"
          /\ Len(segments') = n + 2
          /\ SubSeq(segments', 1, n) = segments
          /\ segments'[n + 1].id = id
          /\ segments'[n + 2].id = id
          /\ segments'[n + 1] # segments'[n + 2]
          /\ DOMAIN segmentsById' = DOMAIN segmentsById \cup {id}
          /\ segmentsById'[id] = segments'[n + 2]
          /\ \A other \in DOMAIN segmentsById :
                segmentsById'[other] = segmentsById[other]
          /\ Len(emitted') = 1
          /\ emitted'[1].name = "segments.add"
          /\ emitted'[1].payload = <<segments'[n + 1], segments'[n + 2]>>]_vars

\* Two descriptors with the same explicit id were added in one call to a
\* repository that already held a segment.
C16_Witness ==
  /\ lastCall.op = "add"
  /\ lastCall.error = "none"
  /\ Len(lastCall.args) = 2
  /\ isObject(lastCall.args[1])
  /\ isObject(lastCall.args[2])
  /\ ~isNullOrUndefined(Get(lastCall.args[1], "id"))
  /\ lastCall.args[1].id = Get(lastCall.args[2], "id")
  /\ Len(segments) = 3
  /\ segments[2].id = segments[3].id
  /\ segmentsById[segments[2].id] = segments[3]

\* C17: a removal never makes a surviving segment unreachable.  After
\* remove, removeById or removeByTime every segment still in the ordered
\* list that getSegment returned for its id before the call is still what
\* getSegment returns for its id.
C17_RemovalKeepsSurvivorsReachable ==
  [][(lastCall'.op \in RemovalOps) =>
       \A i \in 1..Len(segments') :
         LET survivor == segments'[i]
         IN getSegment([segmentsById |-> segmentsById], survivor.id) = survivor
              => getSegment([segmentsById |-> segmentsById'], survivor.id)
                   = survivor]_vars

\* Stored segments whose id is an automatic id at or above the counter
Blocking(list, counter) ==
  Cardinality({i \in 1..Len(list) :
                 \E n \in counter..(MaxCounter + 1) : list[i].id = AutoId(n)})

\* The call was add of one descriptor without id
IsAutoAdd(call) ==
  /\ call.op = "add"
  /\ Len(call.args) = 1
  /\ isObject(call.args[1])
  /\ isNullOrUndefined(Get(call.args[1], "id"))

\* C18: an add of a descriptor without id whose generated id is the id of a
\* stored segment fails with the duplicate-id error, inserts nothing and
\* still advances the id counter, so each failure leaves fewer stored
\* segments with an automatic id at or above the counter and the add
\* succeeds once there is none; and a segment stored under a generated id
\* shares its id with no other stored segment.
C18_AutoIdCollisions ==
  [][ /\ (IsAutoAdd(lastCall') /\ AutoId(segmentIdCounter) \in StoredIds) =>
          /\ lastCall'.error = "Error: duplicate id"
          /\ UNCHANGED <<segments, segmentsById>>
          /\ segmentIdCounter' = segmentIdCounter + 1
          /\ Blocking(segments', segmentIdCounter')
               < Blocking(segments, segmentIdCounter)
      /\ (IsAutoAdd(lastCall') /\ Blocking(segments, segmentIdCounter) = 0) =>
          /\ lastCall'.error = "none"
          /\ segments' # segments
      /\ (lastCall'.op = "add" /\ lastCall'.error = "none") =>
          \A i \in 1..Len(lastCall'.args) :
            \A j \in 1..Len(segments') :
              (/\ isNullOrUndefined(Get(lastCall'.args[i], "id"))
               /\ j # Len(segments) + i)
                => segments'[j].id # segments'[Len(segments) + i].id]_vars

\* The ids of the stored segments are pairwise different and are the keys
\* of the id map
UniqueIds ==
  /\ \A i, j \in 1..Len(segments) :
        segments[i].id = segments[j].id => i = j
  /\ DOMAIN segmentsById = StoredIds

\* Rejection, counter advance and the bound on the failures, from states
\* whose ids are unique
AutoIdCollisionsWhereUnique ==
  [][UniqueIds =>
     /\ (IsAutoAdd(lastCall') /\ AutoId(segmentIdCounter) \in StoredIds) =>
          /\ lastCall'.error = "Error: duplicate id"
          /\ UNCHANGED <<segments, segmentsById>>
          /\ segmentIdCounter' = segmentIdCounter + 1
          /\ Blocking(segments', segmentIdCounter')
               < Blocking(segments, segmentIdCounter)
     /\ (IsAutoAdd(lastCall') /\ Blocking(segments, segmentIdCounter) = 0) =>
          /\ lastCall'.error = "none"
          /\ segments' # segments]_vars

\* C19: with randomizeSegmentColor set the colour cursor is an index in
\* 0..9, the k-th colour request returns palette[k mod 10], so the first
\* colour handed out is palette[1], palette[0] is first handed out on the
\* 10th request, and any 10 consecutive requests return 10 different
\* palette entries.
C19_PaletteCycle ==
  randomizeSegmentColor =>
    /\ Len(colors) = 10
    /\ colorIndex \in 0..9
    /\ colorIndex = Len(colorLog) % 10
    /\ \A k \in 1..Len(colorLog) :
          /\ colorLog[k] = colors[(k % 10) + 1]
          /\ colorLog[k] = colors[1] => k >= 10
    /\ Len(colorLog) >= 1 => colorLog[1] = colors[2]
    /\ Len(colorLog) >= 10 => colorLog[10] = colors[1]
    /\ \A first \in 1..(Len(colorLog) - 9) :
          Cardinality({colorLog[first + j] : j \in 0..9}) = 10

\* The cursor has wrapped: an 11th colour was handed out.
C19_Witness ==
  /\ randomizeSegmentColor
  /\ Len(colorLog) >= 11
  /\ colorIndex = 1
  /\ colorLog[11] = colorLog[1]

\* C20: a public operation called by a handler while an emit is in progress
\* runs on the complete state the emitting operation ends in, and the
\* emitting operation writes neither index after its handler returned or
\* threw; so at every moment, and after the outermost call returned, the
\* ordered list and the id map are those of running the calls one after
\* the other.
C20_ReentrantHandlers ==
  [][/\ segments' = sequential'.segments
     /\ segmentsById' = sequential'.segmentsById
     /\ Len(stack') < Len(stack) => UNCHANGED <<segments, segmentsById>>]_vars

\* removeAll, called by the handler of add's emit, has emptied the
\* repository while add has not returned.
C20_Witness ==
  /\ Len(stack) >= 2
  /\ stack[1].op = "add"
  /\ stack[2].op = "removeAll"
  /\ stack[1].payload # <<>>
  /\ segments = <<>>

====
